---- MODULE Spec2Model ----
(***************************************************************************)
(* mongo-utility: the schema-driven import (src/export.js) and the         *)
(* enhanced export (src/unnamed/part_000).                                 *)
(*                                                                         *)
(* The specifications of the module:                                       *)
(*   Spec      one export run or one import run against the store          *)
(*   SpecLive  the same runs, with the fairness of the event loop          *)
(*   SpecBatch an import run under every --batch-size the CLI can set      *)
(*   SpecVal   validateDocument applied to one document and one schema     *)
(*   SpecCast  castToType applied to one value and one target type         *)
(*   SpecInfer analyzeFieldTypes on a sample, then validateDocument        *)
(***************************************************************************)
EXTENDS Integers, Sequences, FiniteSets, TLC

VARIABLES
    \* ---- the run (Spec) ----
    mode,        \* "import" | "export" | "val" | "cast" | "infer": which program runs
    pc,          \* the next store call (await) the run is suspended at
    env,         \* [uri, dbName]: whether MONGODB_URL / DB_NAME are set
    opts,        \* IMPORT_OPTIONS
    files,       \* the file store: db/schema, db/data, manifest, data files
    store,       \* the document store: collection name -> set of _id values
    ops,         \* every store call issued so far, in order
    run,         \* the locals of importCollections / exportCollections
    cur,         \* the locals for the current collection (the sample, in SpecInfer)
    faults,      \* store/file failures injected so far
    \* ---- validateDocument / castToType (SpecVal, SpecCast) ----
    heap,        \* the JS heap: address -> object or array cell
    doc,         \* the argument: a value (a reference for a document)
    schema,      \* the schema argument, or the target type
    input0,      \* the argument as it was before the call (deep value)
    report       \* the returned value

vars == <<mode, pc, env, opts, files, store, ops, run, cur, faults,
          heap, doc, schema, input0, report>>

runVars == <<env, opts, files, store, ops, run, cur, faults>>
valVars == <<heap, doc, schema, input0, report>>

(***************************************************************************)
(* Bounds                                                                  *)
(***************************************************************************)
MaxArrLen == 2
MaxDocs == 3
MaxBatch == 2
MaxFaults == 1

(***************************************************************************)
(* JS values.  Primitives are immediate records; arrays and plain objects  *)
(* live in the heap and are held by reference.  A number is kept in two    *)
(* limbs, hi * 10^6 + lo, so that 10^10 and n * 1000 stay exact.           *)
(***************************************************************************)
Limb == 10^6

Null == [t |-> "null"]
Undefined == [t |-> "undefined"]
Bool(b) == [t |-> "boolean", b |-> b]
Num(hi, lo) == [t |-> "number", hi |-> hi, lo |-> lo]
Str(s) == [t |-> "string", s |-> s]
DateMs(hi, lo) == [t |-> "date", hi |-> hi, lo |-> lo]
DateImpl(s) == [t |-> "date", impl |-> s]
ObjectId(hex) == [t |-> "objectId", hex |-> hex]
Ref(a) == [t |-> "ref", a |-> a]

\* deep (by-value) composites: what a document is when read out of the heap
Obj(f) == [t |-> "object", f |-> f]
Arr(e) == [t |-> "array", e |-> e]
NoFields == [k \in {} |-> Null]

\* Object.keys order: the model iterates an object's keys in this fixed order
\* (a schema's keys are field paths: age, then the paths below age)
KeyOrder == <<"_id", "age", "age.zip", "age[].zip", "active", "zip", "value">>

RECURSIVE KeysFrom(_, _)
KeysFrom(S, i) ==
    IF i > Len(KeyOrder) THEN <<>>
    ELSE (IF KeyOrder[i] \in S THEN <<KeyOrder[i]>> ELSE <<>>) \o KeysFrom(S, i + 1)

ObjectKeys(f) == KeysFrom(DOMAIN f, 1)

\* const x = e; rest: e is evaluated once and rest sees its value
Bind(e, Rest(_)) == CHOOSE r \in {Rest(x) : x \in {e}} : TRUE

\* ---- heap ----
ObjCell(f) == [k |-> "object", f |-> f]
ArrCell(e) == [k |-> "array", e |-> e]

\* allocate a deep value: the children first, then the cell holding them
RECURSIVE Alloc(_, _), AllocFields(_, _, _, _), AllocElems(_, _, _, _)
Alloc(h, v) ==
    IF v.t = "object" THEN
        Bind(AllocFields(h, v.f, ObjectKeys(v.f), NoFields),
             LAMBDA r : [h |-> Append(r.h, ObjCell(r.f)), v |-> Ref(Len(r.h) + 1)])
    ELSE IF v.t = "array" THEN
        Bind(AllocElems(h, v.e, 1, <<>>),
             LAMBDA r : [h |-> Append(r.h, ArrCell(r.e)), v |-> Ref(Len(r.h) + 1)])
    ELSE [h |-> h, v |-> v]
AllocFields(h, f, keys, done) ==
    IF keys = <<>> THEN [h |-> h, f |-> done]
    ELSE Bind(Alloc(h, f[Head(keys)]),
              LAMBDA r : AllocFields(r.h, f, Tail(keys), (Head(keys) :> r.v) @@ done))
AllocElems(h, e, i, done) ==
    IF i > Len(e) THEN [h |-> h, e |-> done]
    ELSE Bind(Alloc(h, e[i]),
              LAMBDA r : AllocElems(r.h, e, i + 1, Append(done, r.v)))

\* read a value out of the heap, following every reference
RECURSIVE Deref(_, _)
Deref(h, v) ==
    IF v.t # "ref" THEN v
    ELSE IF h[v.a].k = "object"
         THEN Obj([key \in DOMAIN h[v.a].f |-> Deref(h, h[v.a].f[key])])
         ELSE Arr([i \in 1..Len(h[v.a].e) |-> Deref(h, h[v.a].e[i])])

IsArray(h, v) == v.t = "ref" /\ h[v.a].k = "array"
IsPlainObject(h, v) == v.t = "ref" /\ h[v.a].k = "object"
\* typeof value === 'object' (value is never null where this is used)
TypeofObject(h, v) == v.t \in {"ref", "date", "objectId"}

getValueType(h, v) ==
    IF v.t = "null" THEN "null"
    ELSE IF v.t = "undefined" THEN "undefined"
    ELSE IF IsArray(h, v) THEN "array"
    ELSE IF v.t = "date" THEN "date"
    ELSE IF v.t = "objectId" THEN "objectId"
    ELSE IF v.t = "ref" THEN "object"
    ELSE v.t

DeepType(v) == v.t

(***************************************************************************)
(* Numbers in limbs                                                        *)
(***************************************************************************)
NumGt(x, y) == x.hi > y.hi \/ (x.hi = y.hi /\ x.lo > y.lo)
NumIsZero(x) == x.hi = 0 /\ x.lo = 0
NumTimes1000(x) ==
    LET p == x.lo * 1000
    IN  [hi |-> x.hi * 1000 + (p \div Limb), lo |-> p % Limb]
\* the literal 1e10 of castToDate
TenBillion == [hi |-> 10^4, lo |-> 0]

\* the numbers, strings and instants the model draws values from
NumUniverse ==
    {Num(0, 0), Num(0, 1), Num(0, 34),
     Num(9999, 999999), Num(10000, 0), Num(10000, 1)}
IsoEpoch == "1970-01-01T00:00:00.000Z"
Iso34s == "1970-01-01T00:00:34.000Z"
HexId == "507f1f77bcf86cd799439011"
JsonArrText == "[34]"
JsonObjText == "{\"zip\":\"34\"}"
Lexicon ==
    {"34", "yes", "Yes", "not-a-date", Iso34s, HexId, JsonArrText, JsonObjText}
DateInstants == {DateMs(0, 0), DateMs(0, 34000)}

(***************************************************************************)
(* Text conversions of the JS runtime, each by what it does on the values  *)
(* above: String(n), Number(s), toLowerCase, toISOString, new Date(s),     *)
(* ObjectId.isValid, JSON.stringify, JSON.parse.                           *)
(***************************************************************************)
Pad6(lo) ==
    (IF lo < 10 THEN "00000" ELSE IF lo < 100 THEN "0000"
     ELSE IF lo < 1000 THEN "000" ELSE IF lo < 10000 THEN "00"
     ELSE IF lo < 100000 THEN "0" ELSE "") \o ToString(lo)
NumToString(n) ==
    IF n.hi = 0 THEN ToString(n.lo) ELSE ToString(n.hi) \o Pad6(n.lo)

\* Number(s): the number whose decimal text s is; "" is 0; anything else is NaN
StringToNumber(s) ==
    IF s = "" THEN [ok |-> TRUE, v |-> Num(0, 0)]
    ELSE IF \E n \in NumUniverse : NumToString(n) = s
    THEN [ok |-> TRUE, v |-> CHOOSE n \in NumUniverse : NumToString(n) = s]
    ELSE [ok |-> FALSE, v |-> Null]

toLowerCase(s) ==
    CASE s = "Yes" -> "yes"
      [] s = Iso34s -> "1970-01-01t00:00:34.000z"
      [] s = IsoEpoch -> "1970-01-01t00:00:00.000z"
      [] OTHER -> s

toISOString(d) ==
    CASE d = DateMs(0, 0) -> IsoEpoch
      [] d = DateMs(0, 34000) -> Iso34s

\* new Date(s): an ISO text is its instant; a bare decimal number is read by
\* the engine's legacy parser as some valid, zone-dependent instant; a text
\* it cannot read gives an Invalid Date
NewDateFromString(s) ==
    IF \E d \in DateInstants : toISOString(d) = s
    THEN [ok |-> TRUE, v |-> CHOOSE d \in DateInstants : toISOString(d) = s]
    ELSE IF s # "" /\ StringToNumber(s).ok THEN [ok |-> TRUE, v |-> DateImpl(s)]
    ELSE [ok |-> FALSE, v |-> Null]

\* ObjectId.isValid(s) for a string: 24 hexadecimal characters
ObjectIdIsValid(s) == s \in {HexId}

\* JSON string escaping: only the quote character occurs in the lexicon
JsonEscape(s) ==
    IF s = JsonObjText THEN "{\\\"zip\\\":\\\"34\\\"}" ELSE s

RECURSIVE JSONStringify(_), StringifyFields(_, _, _), StringifyElems(_, _)
JSONStringify(v) ==
    CASE v.t = "null" -> "null"
      [] v.t = "undefined" -> "null"
      [] v.t = "boolean" -> IF v.b THEN "true" ELSE "false"
      [] v.t = "number" -> NumToString(v)
      [] v.t = "string" -> "\"" \o JsonEscape(v.s) \o "\""
      [] v.t = "date" -> "\"" \o toISOString(v) \o "\""
      [] v.t = "objectId" -> "\"" \o v.hex \o "\""
      [] v.t = "array" -> "[" \o StringifyElems(v.e, 1) \o "]"
      [] v.t = "object" -> "{" \o StringifyFields(v.f, ObjectKeys(v.f), TRUE) \o "}"
StringifyFields(f, keys, first) ==
    IF keys = <<>> THEN ""
    ELSE IF f[Head(keys)].t = "undefined" THEN StringifyFields(f, Tail(keys), first)
    ELSE (IF first THEN "" ELSE ",")
         \o "\"" \o Head(keys) \o "\":" \o JSONStringify(f[Head(keys)])
         \o StringifyFields(f, Tail(keys), FALSE)
StringifyElems(e, i) ==
    IF i > Len(e) THEN ""
    ELSE (IF i = 1 THEN "" ELSE ",") \o JSONStringify(e[i]) \o StringifyElems(e, i + 1)

\* JSON.parse(s): the value whose JSON text s is, among the values the
\* lexicon's texts denote; any other text is a SyntaxError
ParseUniverse ==
    {Num(0, 34), Arr(<<Num(0, 34)>>), Obj([zip |-> Str("34")])}
JSONParse(s) ==
    IF \E v \in ParseUniverse : JSONStringify(v) = s
    THEN [ok |-> TRUE, v |-> CHOOSE v \in ParseUniverse : JSONStringify(v) = s]
    ELSE [ok |-> FALSE, v |-> Null]

\* JSON.parse(JSON.stringify(v)) on a deep value: a Date becomes its ISO text,
\* an ObjectId its hex text, an undefined member is dropped (null in an array)
RECURSIVE JsonRoundTrip(_)
JsonRoundTrip(v) ==
    CASE v.t = "date" -> Str(toISOString(v))
      [] v.t = "objectId" -> Str(v.hex)
      [] v.t = "undefined" -> Null
      [] v.t = "array" -> Arr([i \in 1..Len(v.e) |-> JsonRoundTrip(v.e[i])])
      [] v.t = "object" ->
           Obj([k \in {x \in DOMAIN v.f : v.f[x].t # "undefined"} |-> JsonRoundTrip(v.f[k])])
      [] OTHER -> v

(***************************************************************************)
(* Type casting functions.  Each returns [ok, h, v]: ok = FALSE is a       *)
(* thrown Error; h is the heap after the call (castToArray and             *)
(* castToObject create objects); v is the returned value.                  *)
(***************************************************************************)
Threw(h) == [ok |-> FALSE, h |-> h, v |-> Null]
Returned(h, v) == [ok |-> TRUE, h |-> h, v |-> v]

castToString(h, value) ==
    CASE value.t = "string" -> Returned(h, value)
      [] value.t = "number" -> Returned(h, Str(NumToString(value)))
      [] value.t = "boolean" -> Returned(h, Str(IF value.b THEN "true" ELSE "false"))
      [] value.t = "date" -> Returned(h, Str(toISOString(value)))
      [] value.t = "objectId" -> Returned(h, Str(value.hex))
      [] value.t = "ref" -> Returned(h, Str(JSONStringify(Deref(h, value))))

castToNumber(h, value) ==
    CASE value.t = "number" -> Returned(h, value)
      [] value.t = "string" ->
           LET Parsed(num) == IF ~num.ok THEN Threw(h) ELSE Returned(h, num.v)
           IN  Bind(StringToNumber(value.s), Parsed)
      [] value.t = "boolean" -> Returned(h, IF value.b THEN Num(0, 1) ELSE Num(0, 0))
      [] value.t = "date" -> Returned(h, Num(value.hi, value.lo))
      [] OTHER -> Threw(h)

castToBoolean(h, value) ==
    CASE value.t = "boolean" -> Returned(h, value)
      [] value.t = "string" ->
           LET Word(lower) ==
                   IF lower \in {"true", "1", "yes", "on"} THEN Returned(h, Bool(TRUE))
                   ELSE IF lower \in {"false", "0", "no", "off"} THEN Returned(h, Bool(FALSE))
                   ELSE Threw(h)
           IN  Word(toLowerCase(value.s))
      [] value.t = "number" -> Returned(h, Bool(~NumIsZero(value)))
      [] OTHER -> Threw(h)

\* faulty variant: the threshold test written >= instead of >
castToDateGe(h, value) ==
    CASE value.t = "date" -> Returned(h, value)
      [] value.t = "string" ->
           LET Parsed(date) == IF ~date.ok THEN Threw(h) ELSE Returned(h, date.v)
           IN  Bind(NewDateFromString(value.s), Parsed)
      [] value.t = "number" ->
           LET Instant(ms) == Returned(h, DateMs(ms.hi, ms.lo))
           IN  Instant(IF ~NumGt(TenBillion, value) THEN value ELSE NumTimes1000(value))
      [] OTHER -> Threw(h)

\* A timestamp of the model is below 2^31 * 10^6 < 8.64e15, so new Date(n)
\* is never an Invalid Date and the isNaN test of line 162 never fires.
castToDate(h, value) ==
    CASE value.t = "date" -> Returned(h, value)
      [] value.t = "string" ->
           LET Parsed(date) == IF ~date.ok THEN Threw(h) ELSE Returned(h, date.v)
           IN  Bind(NewDateFromString(value.s), Parsed)
      [] value.t = "number" ->
           LET Instant(ms) == Returned(h, DateMs(ms.hi, ms.lo))
           IN  Instant(IF NumGt(value, TenBillion) THEN value ELSE NumTimes1000(value))
      [] OTHER -> Threw(h)

castToObjectId(h, value) ==
    CASE value.t = "objectId" -> Returned(h, value)
      [] value.t = "string" ->
           IF ObjectIdIsValid(value.s) THEN Returned(h, ObjectId(value.s)) ELSE Threw(h)
      [] OTHER -> Threw(h)

\* [value]: a new array holding the value itself (a reference stays shared)
WrapInArray(h, value) == Returned(Append(h, ArrCell(<<value>>)), Ref(Len(h) + 1))
\* { value: value }
WrapInObject(h, value) ==
    Returned(Append(h, ObjCell([value |-> value])), Ref(Len(h) + 1))

\* the parsed value, built in new cells, is the value returned
AllocReturned(a) == Returned(a.h, a.v)

castToArray(h, value) ==
    IF IsArray(h, value) THEN Returned(h, value)
    ELSE IF value.t = "string" THEN
        LET Parsed(parsed) ==
                IF parsed.ok /\ parsed.v.t = "array"
                THEN Bind(Alloc(h, parsed.v), AllocReturned)
                ELSE WrapInArray(h, value)
        IN  Bind(JSONParse(value.s), Parsed)
    ELSE WrapInArray(h, value)

castToObject(h, value) ==
    IF TypeofObject(h, value) /\ ~IsArray(h, value) THEN Returned(h, value)
    ELSE IF value.t = "string" THEN
        LET Parsed(parsed) ==
                IF parsed.ok /\ parsed.v.t = "object"
                THEN Bind(Alloc(h, parsed.v), AllocReturned)
                ELSE WrapInObject(h, value)
        IN  Bind(JSONParse(value.s), Parsed)
    ELSE WrapInObject(h, value)

\* The switch of castToType, lines 86-110
CastSwitch(h, value, targetType) ==
    CASE targetType = "string" -> castToString(h, value)
      [] targetType = "number" -> castToNumber(h, value)
      [] targetType = "boolean" -> castToBoolean(h, value)
      [] targetType = "date" -> castToDate(h, value)
      [] targetType = "objectId" -> castToObjectId(h, value)
      [] targetType = "array" -> castToArray(h, value)
      [] targetType = "object" -> castToObject(h, value)
      [] OTHER -> Returned(h, value)

\* castToType never throws: a failed cast is caught inside, reported with
\* console.warn, and the original value returned.  [h, v, warned]
castToType(h, value, targetType) ==
    IF value.t \in {"null", "undefined"} THEN [h |-> h, v |-> value, warned |-> FALSE]
    ELSE IF getValueType(h, value) = targetType THEN [h |-> h, v |-> value, warned |-> FALSE]
    ELSE LET Caught(r) == IF r.ok THEN [h |-> r.h, v |-> r.v, warned |-> FALSE]
                          ELSE [h |-> h, v |-> value, warned |-> TRUE]
         IN  Bind(CastSwitch(h, value, targetType), Caught)

(***************************************************************************)
(* validateDocument.  The closure variables errors, warnings and           *)
(* typeCastingCount, the heap and the console are threaded through as acc. *)
(***************************************************************************)
\* IMPORT_OPTIONS.typeCasting: no command line flag changes it
typeCasting == TRUE

FsRequired(fs) == "required" \in DOMAIN fs /\ fs.required
\* faulty variant: the null count test inverted
FsNullCountNonZero(fs) == "nullCount" \in DOMAIN fs /\ fs.nullCount # 0
FsNullCountZero(fs) == "nullCount" \in DOMAIN fs /\ fs.nullCount = 0
FsHasNested(fs) == "nestedFields" \in DOMAIN fs
FsHasElemType(fs) == "arrayElementType" \in DOMAIN fs

NewAcc(h) ==
    [h |-> h, errors |-> <<>>, warnings |-> <<>>, typeCastingCount |-> 0, console |-> <<>>]

\* errors.push(`Required field '${fieldPath}' is missing`)
PushMissing(acc, fieldPath) ==
    [acc EXCEPT !.errors = Append(@, [field |-> fieldPath])]

\* warnings.push(`Field '${fieldPath}' has type ..., expected ... (casting failed)`)
PushMismatch(acc, fieldPath, finalType, expectedType) ==
    [acc EXCEPT !.warnings =
        Append(@, [field |-> fieldPath, has |-> finalType, expected |-> expectedType])]

\* faulty variant: the counter moves on every attempted cast, failed ones included
CountCastAlways(acc, changed, fieldPath, currentType, expectedType) ==
    [acc EXCEPT !.typeCastingCount = @ + 1,
                !.console = IF changed
                            THEN Append(@, [cast |-> fieldPath, from |-> currentType,
                                            to |-> expectedType])
                            ELSE @]

\* lines 237-241: the cast is counted when the value changed identity
CountCast(acc, changed, fieldPath, currentType, expectedType) ==
    IF changed
    THEN [acc EXCEPT !.typeCastingCount = @ + 1,
                     !.console = Append(@, [cast |-> fieldPath, from |-> currentType,
                                            to |-> expectedType])]
    ELSE acc

\* faulty variant: the failed cast also reaches the warnings list, as the catch block
\* of lines 242-244 would push it if castToType rethrew
WarnCastFailedPush(acc, warned, fieldPath) ==
    IF warned
    THEN [acc EXCEPT !.console = Append(@, [castFailed |-> fieldPath]),
                     !.warnings = Append(@, [field |-> fieldPath, threw |-> TRUE])]
    ELSE acc

\* line 112: console.warn(`Type casting failed for field '${fieldPath}': ...`)
WarnCastFailed(acc, warned, fieldPath) ==
    IF warned THEN [acc EXCEPT !.console = Append(@, [castFailed |-> fieldPath])] ELSE acc

\* finalValue[nestedField] = nestedResult.value
SetField(h, ref, key, v) == [h EXCEPT ![ref.a].f = (key :> v) @@ @]

RECURSIVE validateField(_, _, _, _), ValidateNested(_, _, _, _, _, _),
          ValidateElems(_, _, _, _, _, _, _)
validateField(acc, value, fieldSchema, fieldPath) ==
    LET expectedType == fieldSchema.type
        \* lines 275-287: the elements of an array
        Elements(n, v, finalType) ==
            IF finalType = "array" /\ FsHasElemType(fieldSchema)
            THEN ValidateElems(n.acc, n.acc.h[v.a].e, fieldSchema.arrayElementType,
                               fieldPath, 1, <<>>, n.castingPerformed)
            ELSE [acc |-> n.acc, value |-> v, castingPerformed |-> n.castingPerformed]
        \* lines 258-272: the nested fields of an object
        Nested(acc2, v, changed, finalType) ==
            Bind(IF finalType = "object" /\ FsHasNested(fieldSchema)
                 THEN ValidateNested(acc2, v, fieldSchema.nestedFields,
                                     ObjectKeys(fieldSchema.nestedFields),
                                     fieldPath, changed)
                 ELSE [acc |-> acc2, castingPerformed |-> changed],
                 LAMBDA n : Elements(n, v, finalType))
        \* lines 249-255: the type after the cast against the declared type
        Mismatch(acc1, v, changed, finalType) ==
            Bind(IF finalType # expectedType
                 THEN PushMismatch(acc1, fieldPath, finalType, expectedType)
                 ELSE acc1,
                 LAMBDA acc2 : Nested(acc2, v, changed, finalType))
        Typed(acc1, v, changed) ==
            Bind(getValueType(acc1.h, v),
                 LAMBDA finalType : Mismatch(acc1, v, changed, finalType))
        \* lines 237-241: the outcome of the cast
        Casted(currentType, c) ==
            Bind(CountCast(WarnCastFailed([acc EXCEPT !.h = c.h], c.warned, fieldPath),
                           c.v # value, fieldPath, currentType, expectedType),
                 LAMBDA acc1 : Typed(acc1, c.v, c.v # value))
        \* lines 234-236: the cast is tried when the types differ
        Cast(currentType) ==
            Bind(IF typeCasting /\ currentType # expectedType
                 THEN castToType(acc.h, value, expectedType)
                 ELSE [h |-> acc.h, v |-> value, warned |-> FALSE],
                 LAMBDA c : Casted(currentType, c))
    IN  IF value.t \in {"null", "undefined"} THEN
            [acc |-> IF FsRequired(fieldSchema) /\ FsNullCountZero(fieldSchema)
                     THEN PushMissing(acc, fieldPath) ELSE acc,
             value |-> value, castingPerformed |-> FALSE]
        ELSE Bind(getValueType(acc.h, value), Cast)
ValidateNested(acc, ref, nestedFields, keys, fieldPath, cp) ==
    IF keys = <<>> THEN [acc |-> acc, castingPerformed |-> cp]
    ELSE
        LET nestedField == Head(keys)
            Assigned(r) ==
                ValidateNested([r.acc EXCEPT !.h = SetField(@, ref, nestedField, r.value)],
                               ref, nestedFields, Tail(keys), fieldPath,
                               cp \/ r.castingPerformed)
        IN  IF nestedField \in DOMAIN acc.h[ref.a].f
            THEN Bind(validateField(acc, acc.h[ref.a].f[nestedField],
                                    nestedFields[nestedField],
                                    fieldPath \o "." \o nestedField),
                      Assigned)
            ELSE ValidateNested(acc, ref, nestedFields, Tail(keys), fieldPath, cp)
ValidateElems(acc, items, elemType, fieldPath, i, done, cp) ==
    IF i > Len(items)
    THEN [acc |-> [acc EXCEPT !.h = Append(@, ArrCell(done))],
          value |-> Ref(Len(acc.h) + 1), castingPerformed |-> cp]
    ELSE
        LET Mapped(r) ==
                ValidateElems(r.acc, items, elemType, fieldPath, i + 1,
                              Append(done, r.value), cp \/ r.castingPerformed)
        IN  Bind(validateField(acc, items[i], [type |-> elemType, required |-> FALSE],
                               fieldPath \o "[" \o ToString(i - 1) \o "]"),
                 Mapped)

\* faulty variant: a shallow copy, { ...doc }: the nested objects stay shared
CopyDocumentShallow(h, d) ==
    [h |-> Append(h, ObjCell(h[d.a].f)), v |-> Ref(Len(h) + 1)]

\* let validatedDoc = JSON.parse(JSON.stringify(doc)): a deep copy in new cells
CopyDocument(h, d) == Bind(JsonRoundTrip(Deref(h, d)), LAMBDA copy : Alloc(h, copy))

RECURSIVE ValidateFields(_, _, _, _)
ValidateFields(acc, validatedDoc, fields, keys) ==
    IF keys = <<>> THEN acc
    ELSE
        LET fieldName == Head(keys)
            fieldSchema == fields[fieldName]
            Assigned(result) ==
                ValidateFields([result.acc EXCEPT
                                   !.h = SetField(@, validatedDoc, fieldName, result.value)],
                               validatedDoc, fields, Tail(keys))
        IN  IF fieldName \in DOMAIN acc.h[validatedDoc.a].f
            THEN Bind(validateField(acc, acc.h[validatedDoc.a].f[fieldName],
                                    fieldSchema, fieldName),
                      Assigned)
            ELSE IF FsRequired(fieldSchema) /\ FsNullCountZero(fieldSchema)
            THEN ValidateFields(PushMissing(acc, fieldName), validatedDoc, fields, Tail(keys))
            ELSE ValidateFields(acc, validatedDoc, fields, Tail(keys))

\* lines 305-311: the object validateDocument returns, with the heap and the
\* console after the call
ValidationResult(validatedDoc, acc) ==
    [h |-> acc.h,
     isValid |-> Len(acc.errors) = 0,
     document |-> validatedDoc,
     errors |-> acc.errors,
     warnings |-> acc.warnings,
     typeCastingCount |-> acc.typeCastingCount,
     console |-> acc.console]

validateDocument(h, d, sch) ==
    LET Validated(copy) ==
            Bind(ValidateFields(NewAcc(copy.h), copy.v, sch.fields, ObjectKeys(sch.fields)),
                 LAMBDA acc : ValidationResult(copy.v, acc))
    IN  Bind(CopyDocument(h, d), Validated)

(***************************************************************************)
(* SpecVal: validateDocument(doc, schema) on one document and one schema.  *)
(* The document has the fields age and active; age ranges over every kind  *)
(* of value (scalars, Date, ObjectId, nested object, array) and over every *)
(* declared type, active is the second field of the two-field cases.       *)
(***************************************************************************)
Idle == <<>>
RunIdle ==
    /\ env = Idle /\ opts = Idle /\ files = Idle /\ store = Idle
    /\ ops = Idle /\ run = Idle /\ cur = Idle /\ faults = 0

TypeTags == {"string", "number", "boolean", "date", "objectId", "array", "object", "null"}

LeafValues ==
    {Null, Bool(TRUE), Num(0, 0), Num(0, 34), DateMs(0, 34000), ObjectId(HexId)}
    \cup {Str(s) : s \in Lexicon}
ElemValues == {Null, Str("34"), Str("yes"), Num(0, 34)}
RECURSIVE SeqsUpTo(_, _)
SeqsUpTo(S, n) ==
    IF n = 0 THEN {<<>>}
    ELSE LET shorter == SeqsUpTo(S, n - 1)
         IN  shorter \cup {Append(q, x) : q \in {r \in shorter : Len(r) = n - 1}, x \in S}
ArrayValues == {Arr(e) : e \in SeqsUpTo(ElemValues, MaxArrLen)}
ObjectValues ==
    {Obj(NoFields)}
    \cup {Obj([zip |-> z]) : z \in {Null, Str("34"), Str("not-a-date"), Num(0, 34)}}
ProbeValues == LeafValues \cup ArrayValues \cup ObjectValues

Absent == [t |-> "absent"]
\* the document { age: a, active: b }, a member left out when Absent
MakeDoc(a, b) ==
    Obj([k \in ({"age"} \ {x \in {"age"} : a = Absent})
               \cup ({"active"} \ {x \in {"active"} : b = Absent})
           |-> IF k = "age" THEN a ELSE b])
ValDocs ==
    {MakeDoc(a, b) : a \in ProbeValues \cup {Absent}, b \in {Absent, Null, Str("yes")}}

Requiredness ==
    {[required |-> TRUE, nullCount |-> 0], [required |-> TRUE, nullCount |-> 1],
     [required |-> FALSE, nullCount |-> 0]}
ScalarSchemas ==
    {[type |-> ty, required |-> r.required, nullCount |-> r.nullCount] :
        ty \in TypeTags, r \in Requiredness}
NestedSchemas ==
    {[type |-> "object", required |-> TRUE, nullCount |-> 0,
      nestedFields |-> [zip |-> [type |-> ty, required |-> TRUE, nullCount |-> 0]]] :
        ty \in {"number", "date"}}
ElementSchemas ==
    {[type |-> "array", required |-> TRUE, nullCount |-> 0, arrayElementType |-> ty] :
        ty \in {"number", "boolean"}}
\* an entry as analyzeFieldTypes writes it: no required, no nullCount
ExportedSchemas == {[type |-> "number", nullable |-> FALSE, samples |-> 1]}
AgeSchemas == ScalarSchemas \cup NestedSchemas \cup ElementSchemas \cup ExportedSchemas
ActiveSchemas ==
    {[type |-> "boolean", required |-> r, nullCount |-> 0] : r \in BOOLEAN}
ValSchemas ==
    {[fields |-> [age |-> a, active |-> b]] : a \in AgeSchemas, b \in ActiveSchemas}

InitVal ==
    /\ mode = "val" /\ pc = "call" /\ RunIdle
    /\ \E d \in ValDocs, sch \in ValSchemas :
          LET a == Alloc(<<>>, d)
          IN  heap = a.h /\ doc = a.v /\ input0 = d /\ schema = sch
    /\ report = Idle

ValidateCall ==
    /\ mode \in {"val", "infer"} /\ pc = "call"
    /\ LET r == validateDocument(heap, doc, schema)
       IN  /\ heap' = r.h
           /\ report' = [isValid |-> r.isValid, document |-> r.document,
                         errors |-> r.errors, warnings |-> r.warnings,
                         typeCastingCount |-> r.typeCastingCount, console |-> r.console]
    /\ pc' = "returned"
    /\ UNCHANGED <<mode, doc, schema, input0, runVars>>

SpecVal == InitVal /\ [][ValidateCall]_vars

(***************************************************************************)
(* SpecCast: castToType(value, targetType) on one value and one type.      *)
(***************************************************************************)
CastValues ==
    {Null, Bool(TRUE), Bool(FALSE), ObjectId(HexId)}
    \cup NumUniverse \cup DateInstants \cup {Str(s) : s \in Lexicon}
    \cup {Arr(<<Num(0, 34)>>), Obj([zip |-> Str("34")]), Obj(NoFields)}

InitCast ==
    /\ mode = "cast" /\ pc = "call" /\ RunIdle
    /\ \E v \in CastValues, ty \in TypeTags :
          LET a == Alloc(<<>>, v)
          IN  heap = a.h /\ doc = a.v /\ input0 = v /\ schema = ty
    /\ report = Idle

CastCall ==
    /\ mode = "cast" /\ pc = "call"
    /\ LET r == castToType(heap, doc, schema)
       IN  heap' = r.h /\ report' = [value |-> r.v, warned |-> r.warned]
    /\ pc' = "returned"
    /\ UNCHANGED <<mode, doc, schema, input0, runVars>>

SpecCast == InitCast /\ [][CastCall]_vars

(***************************************************************************)
(* Properties of validateDocument (SpecVal)                                *)
(***************************************************************************)
Returned_ == pc = "returned"
ReturnedDoc == Deref(heap, report.document)
\* the document as validateDocument first reads it
CopiedInput == JsonRoundTrip(input0)
Count(q, P(_)) == Cardinality({i \in 1..Len(q) : P(q[i])})

\* The walk of section 4.4 on a by-value document, with the coercer taken as
\* given: Coerce is the cast switch applied to a private copy of the value.
Coerce(v, ty) ==
    LET a == Alloc(<<>>, v)
        r == CastSwitch(a.h, a.v, ty)
    IN  [ok |-> r.ok /\ DeepType(Deref(r.h, r.v)) = ty, v |-> Deref(r.h, r.v)]
RECURSIVE Expected(_, _), ExpectedNested(_, _, _), ExpectedElems(_, _, _)
Expected(v, fs) ==
    IF v.t = "null" THEN [v |-> v, n |-> 0]
    ELSE
        LET c == IF DeepType(v) # fs.type /\ Coerce(v, fs.type).ok
                 THEN [v |-> Coerce(v, fs.type).v, n |-> 1]
                 ELSE [v |-> v, n |-> 0]
            o == IF c.v.t = "object" /\ FsHasNested(fs)
                 THEN ExpectedNested(c.v, fs.nestedFields, ObjectKeys(fs.nestedFields))
                 ELSE [v |-> c.v, n |-> 0]
            e == IF o.v.t = "array" /\ FsHasElemType(fs)
                 THEN ExpectedElems(o.v.e, fs.arrayElementType, 1)
                 ELSE [v |-> o.v, n |-> 0]
        IN  [v |-> e.v, n |-> c.n + o.n + e.n]
ExpectedNested(o, nested, keys) ==
    IF keys = <<>> THEN [v |-> o, n |-> 0]
    ELSE IF Head(keys) \notin DOMAIN o.f THEN ExpectedNested(o, nested, Tail(keys))
    ELSE LET r == Expected(o.f[Head(keys)], nested[Head(keys)])
             rest == ExpectedNested(Obj((Head(keys) :> r.v) @@ o.f), nested, Tail(keys))
         IN  [v |-> rest.v, n |-> r.n + rest.n]
ExpectedElems(e, ty, i) ==
    IF i > Len(e) THEN [v |-> Arr(<<>>), n |-> 0]
    ELSE LET r == Expected(e[i], [type |-> ty])
             rest == ExpectedElems(e, ty, i + 1)
         IN  [v |-> Arr(<<r.v>> \o rest.v.e), n |-> r.n + rest.n]
ExpectedDocument == ExpectedNested(CopiedInput, schema.fields, ObjectKeys(schema.fields))

\* C6: validateDocument never mutates its input: after the call the argument
\* document, read through every nested object and array, is what it was
\* before the call, also when nested fields and array elements were coerced
\* in the returned document.
C6_InputNotMutated ==
    (mode = "val" /\ Returned_) => Deref(heap, doc) = input0

\* a run where a nested object field was coerced in the returned document
C6_Witness ==
    /\ mode = "val" /\ Returned_
    /\ \E i \in 1..Len(report.console) :
          "cast" \in DOMAIN report.console[i] /\ report.console[i].cast = "age.zip"
    /\ ReturnedDoc # input0

\* C7: every schema field present in the document whose type differs from
\* the declared type and whose coercion succeeds holds the coerced value in
\* the returned document and adds exactly one to the cast counter: the
\* returned document and typeCastingCount are those of the walk that replaces
\* exactly the successfully coerced values and counts each once.
C7_CastsCounted ==
    (mode = "val" /\ Returned_) =>
        /\ ReturnedDoc = ExpectedDocument.v
        /\ report.typeCastingCount = ExpectedDocument.n
        /\ \A f \in DOMAIN schema.fields \cap DOMAIN CopiedInput.f :
              LET v == CopiedInput.f[f]
                  ty == schema.fields[f].type
              IN  (v.t # "null" /\ DeepType(v) # ty /\ Coerce(v, ty).ok) =>
                     /\ DeepType(ReturnedDoc.f[f]) = ty
                     /\ Count(report.console,
                              LAMBDA e : "cast" \in DOMAIN e /\ e.cast = f) = 1

\* scenario A: {age: "34", active: "yes"} against {age: number, active: boolean}
C7_Witness ==
    /\ mode = "val" /\ Returned_
    /\ input0 = Obj([age |-> Str("34"), active |-> Str("yes")])
    /\ schema.fields.age.type = "number" /\ schema.fields.active.type = "boolean"
    /\ ReturnedDoc = Obj([age |-> Num(0, 34), active |-> Bool(TRUE)])
    /\ report.typeCastingCount = 2
    /\ report.errors = <<>>

\* the schema's own entries that are required, never null in the sample, and
\* absent from the document
MissingRequired ==
    {f \in DOMAIN schema.fields :
        /\ {"required", "nullCount"} \subseteq DOMAIN schema.fields[f]
        /\ schema.fields[f].required /\ schema.fields[f].nullCount = 0
        /\ f \notin DOMAIN CopiedInput.f}
RECURSIVE HasNull(_)
HasNull(v) ==
    CASE v.t = "null" -> TRUE
      [] v.t = "object" -> \E k \in DOMAIN v.f : HasNull(v.f[k])
      [] v.t = "array" -> \E i \in 1..Len(v.e) : HasNull(v.e[i])
      [] OTHER -> FALSE

C9_FailedCoercion ==
    (mode = "val" /\ Returned_) =>
        \A f \in DOMAIN schema.fields \cap DOMAIN CopiedInput.f :
            LET v == CopiedInput.f[f]
                ty == schema.fields[f].type
                a == Alloc(<<>>, v)
            IN  (v.t # "null" /\ DeepType(v) # ty /\ ~CastSwitch(a.h, a.v, ty).ok) =>
                   /\ ReturnedDoc.f[f] = v
                   /\ Count(report.console,
                            LAMBDA e : "cast" \in DOMAIN e /\ e.cast = f) = 0
                   /\ Count(report.warnings, LAMBDA w : w.field = f) = 1

\* scenario C: "not-a-date" against date
C9_Witness ==
    /\ mode = "val" /\ Returned_
    /\ "age" \in DOMAIN input0.f /\ input0.f.age = Str("not-a-date")
    /\ schema.fields.age.type = "date"
    /\ ReturnedDoc.f.age = Str("not-a-date")
    /\ report.typeCastingCount = 0
    /\ Count(report.warnings, LAMBDA w : w.field = "age") = 1

(***************************************************************************)
(* Properties of castToType (SpecCast)                                     *)
(***************************************************************************)
NumberToDateCall == mode = "cast" /\ Returned_ /\ input0.t = "number" /\ schema = "date"
AsMilliseconds(n) == DateMs(n.hi, n.lo)
AsSeconds(n) == DateMs(n.hi * 1000 + (n.lo * 1000) \div 10^6, (n.lo * 1000) % 10^6)

\* C10 as stated: a number coerced to date is read as milliseconds when it
\* is greater than or equal to 10^10 (10^10 itself included) and as seconds
\* when it is smaller.
C10_AsStated ==
    NumberToDateCall =>
        report.value = IF input0.hi >= 10^4 THEN AsMilliseconds(input0)
                       ELSE AsSeconds(input0)

\* C10 amended: a number coerced to date is read as milliseconds when it is
\* strictly greater than 10^10 and as seconds when it is 10^10 or smaller.
C10_StrictThreshold ==
    NumberToDateCall =>
        report.value = IF input0.hi > 10^4 \/ (input0.hi = 10^4 /\ input0.lo > 0)
                       THEN AsMilliseconds(input0)
                       ELSE AsSeconds(input0)

\* 10^10 itself is read as seconds: the date is 10^13 ms after the epoch
C10_Witness ==
    /\ NumberToDateCall
    /\ input0 = Num(10^4, 0)
    /\ report.value = DateMs(10^7, 0)

(***************************************************************************)
(* Spec: one run of importCollections (src/export.js) or exportCollections *)
(* (src/unnamed/part_000).  The run is one thread; it is suspended at      *)
(* every await on the store, and pc names the call it is suspended at.     *)
(* A store or file call may fail; one failure is injected per run at most, *)
(* besides the failures the store's own state forces (a duplicate _id).    *)
(***************************************************************************)
Colls == <<"users", "orders">>
CollSet == {Colls[i] : i \in 1..Len(Colls)}

\* the documents of the exported data files
AgeOf(i) ==
    CASE i = 1 -> Str("34")
      [] i = 2 -> Str("not-a-date")
      [] i = 3 -> Absent
      [] OTHER -> Num(0, 34)
\* a document without age carries active as the text "yes"
FileDoc(c, i) ==
    IF AgeOf(i) = Absent THEN Obj([_id |-> Str(c \o ToString(i)), active |-> Str("yes")])
    ELSE Obj([_id |-> Str(c \o ToString(i)), age |-> AgeOf(i)])
FileDocs(c, n) == [i \in 1..n |-> FileDoc(c, i)]

\* the persisted collection schemas: users as a manifest that marks age
\* required, orders as analyzeFieldTypes writes its entries
CollectionSchema(c) ==
    IF c = "users"
    THEN [fields |-> [_id |-> [type |-> "string", required |-> TRUE, nullCount |-> 0],
                      age |-> [type |-> "number", required |-> TRUE, nullCount |-> 0],
                      active |-> [type |-> "boolean", required |-> FALSE, nullCount |-> 0]],
          indexes |-> <<"_id_", "age_1">>, stats |-> [documentCount |-> 1]]
    ELSE [fields |-> [_id |-> [type |-> "string", nullable |-> FALSE, samples |-> 1],
                      age |-> [type |-> "string", nullable |-> FALSE, samples |-> 1]],
          indexes |-> <<"_id_">>, stats |-> [documentCount |-> 1]]

\* a path that fs.existsSync reports missing
NoFile == [exists |-> FALSE]
File(content) == [exists |-> TRUE, content |-> content]
\* a migration file an earlier export left
EarlierSql == [createTable |-> <<>>, inserts |-> <<>>]
\* db/ as an earlier export left it: nothing, the directories without the
\* manifest, or the manifest with users (n documents) and orders (1 document)
FileStates ==
    {[schemaDir |-> FALSE, dataDir |-> FALSE, manifest |-> NoFile,
      data |-> [c \in CollSet |-> NoFile], migration |-> [c \in CollSet |-> NoFile]],
     [schemaDir |-> TRUE, dataDir |-> TRUE, manifest |-> NoFile,
      data |-> [c \in CollSet |-> NoFile], migration |-> [c \in CollSet |-> NoFile]]}
    \cup {[schemaDir |-> TRUE, dataDir |-> TRUE,
           manifest |-> File([collections |-> [c \in CollSet |-> CollectionSchema(c)],
                              totalCollections |-> 2]),
           data |-> [c \in CollSet |-> IF c = "users" THEN File(FileDocs(c, n))
                                       ELSE File(FileDocs(c, 1))],
           migration |-> [c \in CollSet |-> File(EarlierSql)]] : n \in 0..MaxDocs}

\* the store before the run: users holds a document of its own, orders holds
\* the document the data file of orders holds too
StoreBefore ==
    [exists |-> CollSet,
     docs |-> [c \in CollSet |-> IF c = "users" THEN <<Obj([_id |-> Str("old")])>>
                                 ELSE <<FileDoc(c, 1)>>]]

\* selectiveImport: null
NoSelection == [null |-> TRUE]
\* IMPORT_OPTIONS after the command line was read (lines 607-622)
ImportOptions ==
    [recreateDatabase : BOOLEAN, recreateIndexes : BOOLEAN, validateData : BOOLEAN,
     clearCollections : BOOLEAN, batchSize : 1..MaxBatch,
     selectiveImport : {NoSelection, [list |-> <<"orders">>],
                        [list |-> <<"ghost", "users">>]}]
DefaultOptions ==
    [recreateDatabase |-> TRUE, recreateIndexes |-> TRUE, validateData |-> TRUE,
     clearCollections |-> TRUE, batchSize |-> MaxBatch, selectiveImport |-> NoSelection]

Envs == {[uri |-> TRUE, dbName |-> TRUE], [uri |-> FALSE, dbName |-> TRUE],
         [uri |-> TRUE, dbName |-> FALSE]}

NewRun ==
    [client |-> FALSE, threw |-> "no", failed |-> {}, list |-> <<>>, idx |-> 0,
     totalImported |-> 0, totalCollections |-> 0, totalTypeCasts |-> 0,
     totalWarnings |-> 0, totalErrors |-> 0, summary |-> FALSE,
     verify |-> <<>>, vidx |-> 0, collections |-> NoFields]

\* every switch with the default batch size and no collection list, and the
\* default switches with every batch size and collection list
FlagOptions ==
    {o \in ImportOptions : o.batchSize = MaxBatch /\ o.selectiveImport = NoSelection}
    \cup {o \in ImportOptions : /\ o.recreateDatabase /\ o.recreateIndexes
                                /\ o.validateData /\ o.clearCollections}

InitImportWith(Options) ==
    /\ mode = "import" /\ pc = "start"
    /\ env \in Envs
    /\ opts \in Options
    /\ files \in FileStates
    /\ store = StoreBefore
    /\ ops = <<>> /\ run = NewRun /\ cur = Idle /\ faults = 0
    /\ heap = Idle /\ doc = Idle /\ schema = Idle /\ input0 = Idle /\ report = Idle
InitImport == InitImportWith(ImportOptions)

\* ---- the store ----
Ids(docs) == {docs[i].f._id : i \in 1..Len(docs)}
Issue(o) == ops' = Append(ops, o)
MayFail == faults < MaxFaults
\* faulty variant: the close written at the end of the try block, not in a finally
CatchTargetNoFinally == "done"
\* where a throw inside the try block leads: the catch logs it, finally closes
CatchTarget == "close"
Throw(kind) ==
    /\ run' = [run EXCEPT !.threw = kind, !.failed = @ \cup {kind}]
    /\ pc' = CatchTarget

(***************************************************************************)
(* new MongoClient(uri); await client.connect()                            *)
(***************************************************************************)
\* With MONGODB_URL unset the driver rejects the undefined connection
\* string: in its constructor (outside the try, so nothing is caught and
\* nothing is closed) or, in drivers that parse it later, in connect().
ConstructThrows ==
    /\ mode \in {"import", "export"} /\ pc = "start" /\ ~env.uri
    /\ pc' = "done"
    /\ run' = [run EXCEPT !.threw = "construct"]
    /\ UNCHANGED <<mode, env, opts, files, store, ops, cur, faults, valVars>>

Construct ==
    /\ mode \in {"import", "export"} /\ pc = "start"
    /\ pc' = "connect"
    /\ run' = [run EXCEPT !.client = TRUE]
    /\ UNCHANGED <<mode, env, opts, files, store, ops, cur, faults, valVars>>

AfterConnect ==
    IF mode = "export" THEN "listCollections"
    ELSE IF opts.recreateDatabase THEN "dropDatabase" ELSE "readManifest"

Connect ==
    /\ mode \in {"import", "export"} /\ pc = "connect"
    /\ Issue([op |-> "connect"])
    /\ \/ env.uri /\ pc' = AfterConnect /\ UNCHANGED <<run, faults>>
       \/ ~env.uri /\ Throw("connect") /\ UNCHANGED faults
       \/ env.uri /\ MayFail /\ faults' = faults + 1 /\ Throw("connect")
    /\ UNCHANGED <<mode, env, opts, files, store, cur, valVars>>

\* finally { await client.close() }
Close ==
    /\ mode \in {"import", "export"} /\ pc = "close"
    /\ Issue([op |-> "close"])
    /\ pc' = "done"
    /\ UNCHANGED <<mode, env, opts, files, store, run, cur, faults, valVars>>

(***************************************************************************)
(* importCollections                                                       *)
(***************************************************************************)
\* lines 474-479: await client.db(dbName).dropDatabase()
DropDatabase ==
    /\ mode = "import" /\ pc = "dropDatabase"
    /\ Issue([op |-> "dropDatabase"])
    /\ \/ /\ store' = [exists |-> {}, docs |-> [c \in CollSet |-> <<>>]]
          /\ pc' = "readManifest" /\ UNCHANGED <<run, faults>>
       \/ /\ MayFail /\ faults' = faults + 1 /\ Throw("dropDatabase")
          /\ UNCHANGED store
    /\ UNCHANGED <<mode, env, opts, files, cur, valVars>>

\* Object.keys(databaseSchema.collections)
ManifestKeys(m) == SelectSeq(Colls, LAMBDA c : c \in DOMAIN m.collections)

\* lines 483-513: the directory and manifest tests, the manifest read
ReadManifest ==
    /\ mode = "import" /\ pc = "readManifest"
    /\ \/ /\ ~files.schemaDir \/ ~files.dataDir
          /\ Throw("no export directories")
          /\ UNCHANGED faults
       \/ /\ files.schemaDir /\ files.dataDir /\ ~files.manifest.exists
          /\ Throw("no manifest")
          /\ UNCHANGED faults
       \/ /\ files.schemaDir /\ files.dataDir /\ files.manifest.exists
          /\ run' = [run EXCEPT
                !.list = IF opts.selectiveImport = NoSelection
                         THEN ManifestKeys(files.manifest.content)
                         ELSE opts.selectiveImport.list,
                !.idx = 1]
          /\ pc' = "loop"
          /\ UNCHANGED faults
       \/ /\ files.schemaDir /\ files.dataDir /\ files.manifest.exists
          /\ MayFail /\ faults' = faults + 1
          /\ Throw("readFileSync")
    /\ UNCHANGED <<mode, env, opts, files, store, ops, cur, valVars>>

(***************************************************************************)
(* importCollectionData: validation (lines 372-418)                        *)
(***************************************************************************)
\* validateDocument on a document parsed from the data file
ValidateValue(d, sch) ==
    LET ByValue(r) ==
            [isValid |-> r.isValid, document |-> Deref(r.h, r.document),
             errors |-> r.errors, warnings |-> r.warnings,
             typeCastingCount |-> r.typeCastingCount]
        Parsed(a) == Bind(validateDocument(a.h, a.v, sch), ByValue)
    IN  Bind(Alloc(<<>>, d), Parsed)

\* IMPORT_OPTIONS.skipInvalidDocuments: never defined, so undefined
skipInvalidDocuments == FALSE

NewTotals ==
    [validDocuments |-> <<>>, invalidCount |-> 0, totalTypeCasts |-> 0,
     totalValidationErrors |-> 0, totalValidationWarnings |-> 0]

\* one iteration of the loop of lines 376-404
TallyDocument(t, validation) ==
    IF validation.isValid
    THEN [t EXCEPT !.validDocuments = Append(@, validation.document),
                   !.totalTypeCasts = @ + validation.typeCastingCount,
                   !.totalValidationWarnings = @ + Len(validation.warnings)]
    ELSE [t EXCEPT !.totalValidationErrors = @ + Len(validation.errors),
                   !.invalidCount = @ + 1,
                   !.validDocuments = IF ~skipInvalidDocuments
                                      THEN Append(@, validation.document) ELSE @]

RECURSIVE ValidateAll(_, _, _, _)
ValidateAll(documents, sch, i, t) ==
    IF i > Len(documents) THEN t
    ELSE Bind(ValidateValue(documents[i], sch),
              LAMBDA validation :
                  ValidateAll(documents, sch, i + 1, TallyDocument(t, validation)))

ValidatedDocuments(documents, sch) ==
    IF opts.validateData THEN ValidateAll(documents, sch, 1, NewTotals)
    ELSE [NewTotals EXCEPT !.validDocuments = documents]

\* parseInt of a text that is no number: NaN, kept as a value apart from
\* every integer a run computes
NaN == 0 - 2^20
\* x + y and x < y of JS numbers that are integers or NaN
Plus(x, y) == IF x = NaN \/ y = NaN THEN NaN ELSE x + y
Less(x, y) == x # NaN /\ y # NaN /\ x < y

\* Array.prototype.slice(start, end): a negative index counts from the end,
\* NaN is 0, both are clamped to the array, and end <= start gives []
RelativeIndex(x, len) ==
    IF x = NaN THEN 0
    ELSE IF x < 0 THEN (IF len + x > 0 THEN len + x ELSE 0)
    ELSE IF x < len THEN x ELSE len
slice(array, start, end) ==
    SubSeq(array, RelativeIndex(start, Len(array)) + 1, RelativeIndex(end, Len(array)))

\* faulty variant: the slice taken one document too long
BatchTooLong(validDocuments, i, batchSize) ==
    slice(validDocuments, i, Plus(Plus(i, batchSize), 1))

\* validDocuments.slice(i, i + batchSize), i counted from 0
Batch(validDocuments, i, batchSize) ==
    slice(validDocuments, i, Plus(i, batchSize))

\* lines 515-551: the next collection of collectionsToImport, up to the first
\* await of importCollectionData
NextCollection ==
    /\ mode = "import" /\ pc = "loop"
    /\ IF run.idx > Len(run.list) THEN
           \* lines 569-588: the summary is printed, verification starts
           /\ run' = [run EXCEPT !.summary = TRUE]
           /\ pc' = "verifyList"
           /\ UNCHANGED cur
       ELSE
           LET collectionName == run.list[run.idx]
               known == collectionName \in DOMAIN files.manifest.content.collections
           IN  IF \/ ~known
                  \/ ~files.data[collectionName].exists
                  \/ Len(files.data[collectionName].content) = 0
               THEN /\ run' = [run EXCEPT !.idx = @ + 1]
                    /\ UNCHANGED <<pc, cur>>
               ELSE
                   LET sch == files.manifest.content.collections[collectionName]
                       documents == files.data[collectionName].content
                       Validated(t) ==
                           /\ cur' = [name |-> collectionName, indexes |-> sch.indexes,
                                      total |-> Len(documents),
                                      validDocuments |-> t.validDocuments,
                                      typeCasts |-> t.totalTypeCasts,
                                      warnings |-> t.totalValidationWarnings,
                                      errors |-> t.totalValidationErrors,
                                      i |-> 0, batch |-> <<>>, j |-> 0,
                                      importedCount |-> 0, k |-> 0,
                                      returned |-> IF Len(t.validDocuments) = 0
                                                   THEN "zero" ELSE "no"]
                           /\ pc' = IF Len(t.validDocuments) = 0 THEN "afterImport"
                                    ELSE IF opts.clearCollections THEN "deleteMany"
                                    ELSE "insertMany"
                           /\ UNCHANGED run
                   IN  \E t \in {ValidatedDocuments(documents, sch)} : Validated(t)
    /\ UNCHANGED <<mode, env, opts, files, store, ops, faults, valVars>>

\* lines 425-429: await collection.deleteMany({}), outside any try
DeleteMany ==
    /\ mode = "import" /\ pc = "deleteMany"
    /\ Issue([op |-> "deleteMany", coll |-> cur.name])
    /\ \/ /\ store' = [store EXCEPT !.docs[cur.name] = <<>>]
          /\ pc' = "insertMany"
          /\ UNCHANGED <<run, faults>>
       \/ /\ MayFail /\ faults' = faults + 1
          /\ Throw("deleteMany")
          /\ UNCHANGED store
    /\ UNCHANGED <<mode, env, opts, files, cur, valVars>>

\* i is a double: from -2^53 downward i - 1 is i itself.  A slice that
\* starts below -validDocuments.length is the slice that starts at 0, so the
\* model lets i stop at MinIndex.
MinIndex == 0 - (MaxDocs + 2)
Floored(i) == IF i # NaN /\ i < MinIndex THEN MinIndex ELSE i

\* the for statement's i += batchSize and its test, then the return value
AfterBatch(c) ==
    LET i == Floored(Plus(c.i, opts.batchSize))
    IN  IF Less(i, Len(c.validDocuments))
        THEN [c EXCEPT !.i = i, !.batch = <<>>, !.j = 0]
        ELSE [c EXCEPT !.i = i, !.batch = <<>>, !.j = 0, !.returned = "result"]
PcAfterBatch(c) == IF AfterBatch(c).returned = "result" THEN "afterImport" ELSE "insertMany"

Fresh(docs, coll) == {i \in 1..Len(docs) : docs[i].f._id \notin Ids(store.docs[coll])}
Inserted(coll, docs, S) ==
    [exists |-> store.exists \cup {coll},
     docs |-> [store.docs EXCEPT ![coll] = @ \o SelectSeq(docs, LAMBDA d :
                    \E i \in S : docs[i] = d)]]

\* lines 435-443: await collection.insertMany(batch, { ordered: false })
InsertMany ==
    /\ mode = "import" /\ pc = "insertMany"
    /\ LET batch == Batch(cur.validDocuments, cur.i, opts.batchSize)
           all == 1..Len(batch)
           Call(rejected) == Issue([op |-> "insertMany", coll |-> cur.name,
                                    docs |-> batch, rejected |-> rejected])
       IN  /\ \/ \* an empty batch: the driver rejects it before any call to
                 \* the store, and the fallback loop has nothing to go over
                 /\ batch = <<>>
                 /\ cur' = AfterBatch(cur)
                 /\ run' = [run EXCEPT !.failed = @ \cup {"insertMany"}]
                 /\ pc' = PcAfterBatch(cur)
                 /\ UNCHANGED <<ops, store, faults>>
              \/ \* every document is stored
                 /\ batch # <<>>
                 /\ Fresh(batch, cur.name) = all
                 /\ Call(FALSE)
                 /\ store' = Inserted(cur.name, batch, all)
                 /\ cur' = AfterBatch([cur EXCEPT !.importedCount = @ + Len(batch)])
                 /\ pc' = PcAfterBatch(cur)
                 /\ UNCHANGED <<run, faults>>
              \/ \* a duplicate _id: the others are stored, the call rejects
                 /\ batch # <<>>
                 /\ Fresh(batch, cur.name) # all
                 /\ Call(TRUE)
                 /\ store' = Inserted(cur.name, batch, Fresh(batch, cur.name))
                 /\ cur' = [cur EXCEPT !.batch = batch, !.j = 1]
                 /\ run' = [run EXCEPT !.failed = @ \cup {"insertMany"}]
                 /\ pc' = "insertOne"
                 /\ UNCHANGED faults
              \/ \* an injected failure: any of the documents may be stored
                 /\ batch # <<>>
                 /\ MayFail /\ faults' = faults + 1
                 /\ Call(TRUE)
                 /\ \E S \in SUBSET Fresh(batch, cur.name) :
                       store' = Inserted(cur.name, batch, S)
                 /\ cur' = [cur EXCEPT !.batch = batch, !.j = 1]
                 /\ run' = [run EXCEPT !.failed = @ \cup {"insertMany"}]
                 /\ pc' = "insertOne"
    /\ UNCHANGED <<mode, env, opts, files, valVars>>

\* lines 446-453: await collection.insertOne(doc), each in its own try
InsertOne ==
    /\ mode = "import" /\ pc = "insertOne"
    /\ LET d == cur.batch[cur.j]
           fresh == d.f._id \notin Ids(store.docs[cur.name])
           next(c) == IF c.j < Len(c.batch) THEN [c EXCEPT !.j = @ + 1] ELSE AfterBatch(c)
           nextPc == IF cur.j < Len(cur.batch) THEN "insertOne" ELSE PcAfterBatch(cur)
       IN  /\ Issue([op |-> "insertOne", coll |-> cur.name, docs |-> <<d>>])
           /\ pc' = nextPc
           /\ \/ /\ fresh
                 /\ store' = Inserted(cur.name, <<d>>, {1})
                 /\ cur' = next([cur EXCEPT !.importedCount = @ + 1])
                 /\ UNCHANGED <<run, faults>>
              \/ /\ ~fresh
                 /\ cur' = next(cur)
                 /\ run' = [run EXCEPT !.failed = @ \cup {"insertOne"}]
                 /\ UNCHANGED <<store, faults>>
              \/ /\ fresh /\ MayFail /\ faults' = faults + 1
                 /\ cur' = next(cur)
                 /\ run' = [run EXCEPT !.failed = @ \cup {"insertOne"}]
                 /\ UNCHANGED store
    /\ UNCHANGED <<mode, env, opts, files, valVars>>

\* lines 553-556: createIndexes is entered when there is an index to create
AfterImport ==
    /\ mode = "import" /\ pc = "afterImport"
    /\ IF opts.recreateIndexes /\ Len(cur.indexes) > 0
       THEN cur' = [cur EXCEPT !.k = 1] /\ pc' = "createIndex"
       ELSE UNCHANGED cur /\ pc' = "tally"
    /\ UNCHANGED <<mode, env, opts, files, store, ops, run, faults, valVars>>

\* createIndexes, lines 338-359: one index of the list, in its own try
CreateIndex ==
    /\ mode = "import" /\ pc = "createIndex"
    /\ cur' = [cur EXCEPT !.k = @ + 1]
    /\ pc' = IF cur.k < Len(cur.indexes) THEN "createIndex" ELSE "tally"
    /\ IF cur.indexes[cur.k] = "_id_"
       THEN UNCHANGED <<ops, store, run, faults>>
       ELSE /\ Issue([op |-> "createIndex", coll |-> cur.name, name |-> cur.indexes[cur.k]])
            /\ \/ /\ store' = [store EXCEPT !.exists = @ \cup {cur.name}]
                  /\ UNCHANGED <<run, faults>>
               \/ /\ MayFail /\ faults' = faults + 1
                  /\ run' = [run EXCEPT !.failed = @ \cup {"createIndex"}]
                  /\ UNCHANGED store
    /\ UNCHANGED <<mode, env, opts, files, valVars>>

\* lines 558-566: the result of importCollectionData is added to the totals
Tally ==
    /\ mode = "import" /\ pc = "tally"
    /\ run' = [run EXCEPT
          !.totalImported = IF cur.returned = "result" THEN @ + cur.importedCount ELSE @,
          !.totalTypeCasts = IF cur.returned = "result" THEN @ + cur.typeCasts ELSE @,
          !.totalWarnings = IF cur.returned = "result" THEN @ + cur.warnings ELSE @,
          !.totalErrors = IF cur.returned = "result" THEN @ + cur.errors ELSE @,
          !.totalCollections = @ + 1,
          !.idx = @ + 1]
    /\ cur' = Idle
    /\ pc' = "loop"
    /\ UNCHANGED <<mode, env, opts, files, store, ops, faults, valVars>>

\* line 588: await db.listCollections().toArray()
VerifyList ==
    /\ mode = "import" /\ pc = "verifyList"
    /\ Issue([op |-> "listCollections"])
    /\ \/ /\ run' = [run EXCEPT !.verify = SelectSeq(Colls, LAMBDA c : c \in store.exists),
                                !.vidx = 1]
          /\ pc' = IF store.exists = {} THEN "close" ELSE "countDocuments"
          /\ UNCHANGED faults
       \/ /\ MayFail /\ faults' = faults + 1
          /\ Throw("listCollections")
    /\ UNCHANGED <<mode, env, opts, files, store, cur, valVars>>

\* line 592: await collection.countDocuments()
CountDocuments ==
    /\ mode = "import" /\ pc = "countDocuments"
    /\ Issue([op |-> "countDocuments", coll |-> run.verify[run.vidx]])
    /\ \/ pc' = "indexes" /\ UNCHANGED <<run, faults>>
       \/ MayFail /\ faults' = faults + 1 /\ Throw("countDocuments")
    /\ UNCHANGED <<mode, env, opts, files, store, cur, valVars>>

\* line 593: await collection.indexes()
VerifyIndexes ==
    /\ mode = "import" /\ pc = "indexes"
    /\ Issue([op |-> "indexes", coll |-> run.verify[run.vidx]])
    /\ \/ /\ run' = [run EXCEPT !.vidx = @ + 1]
          /\ pc' = IF run.vidx < Len(run.verify) THEN "countDocuments" ELSE "close"
          /\ UNCHANGED faults
       \/ MayFail /\ faults' = faults + 1 /\ Throw("indexes")
    /\ UNCHANGED <<mode, env, opts, files, store, cur, valVars>>

ImportNext ==
    \/ DropDatabase \/ ReadManifest \/ NextCollection \/ DeleteMany
    \/ InsertMany \/ InsertOne \/ AfterImport \/ CreateIndex \/ Tally
    \/ VerifyList \/ CountDocuments \/ VerifyIndexes

(***************************************************************************)
(* analyzeFieldTypes (src/unnamed/part_000, lines 157-205) on documents    *)
(* read from the store.  schema[path] is kept in counts as [order, n]: the *)
(* type tags in the order they were first seen and the count of each.      *)
(***************************************************************************)
\* schema[fullKey][type] = (schema[fullKey][type] || 0) + 1
Bump(counts, fullKey, type) ==
    LET types == IF fullKey \in DOMAIN counts THEN counts[fullKey]
                 ELSE [order |-> <<>>, n |-> NoFields]
    IN  (fullKey :> IF type \in DOMAIN types.n
                    THEN [types EXCEPT !.n[type] = @ + 1]
                    ELSE [order |-> Append(types.order, type),
                          n |-> (type :> 1) @@ types.n]) @@ counts

\* An element that is an object is analyzed under <path>[]; a Date has no
\* keys of its own; the other elements are not objects.
RECURSIVE analyzeObject(_, _, _, _), AnalyzeItems(_, _, _, _)
analyzeObject(f, keys, counts, prefix) ==
    IF keys = <<>> THEN counts
    ELSE
        LET key == Head(keys)
            fullKey == IF prefix # "" THEN prefix \o "." \o key ELSE key
            value == f[key]
            type == DeepType(value)
            Counted(s) ==
                IF type = "object" THEN analyzeObject(value.f, ObjectKeys(value.f), s, fullKey)
                ELSE IF type = "array" /\ Len(value.e) > 0
                THEN AnalyzeItems(value.e, 1, s, fullKey \o "[]")
                ELSE s
        IN  Bind(Bind(Bump(counts, fullKey, type), Counted),
                 LAMBDA s : analyzeObject(f, Tail(keys), s, prefix))
AnalyzeItems(items, i, counts, prefix) ==
    IF i > Len(items) THEN counts
    ELSE Bind(IF items[i].t = "object"
              THEN analyzeObject(items[i].f, ObjectKeys(items[i].f), counts, prefix)
              ELSE counts,
              LAMBDA s : AnalyzeItems(items, i + 1, s, prefix))

\* documents.forEach(doc => analyzeObject(doc, schema, '')) over the
\* documents lo..hi, in order: the first half, then the second half
RECURSIVE AnalyzeDocuments(_, _, _, _)
AnalyzeDocuments(documents, lo, hi, counts) ==
    IF lo > hi THEN counts
    ELSE IF lo = hi
    THEN analyzeObject(documents[lo].f, ObjectKeys(documents[lo].f), counts, "")
    ELSE Bind(AnalyzeDocuments(documents, lo, (lo + hi) \div 2, counts),
              LAMBDA s : AnalyzeDocuments(documents, (lo + hi) \div 2 + 1, hi, s))

\* faulty variant: the first type seen at the path, whatever its count
MostCommonFirst(types, i, a) == a

\* Object.keys(types).reduce((a, b) => types[a] > types[b] ? a : b)
RECURSIVE MostCommon(_, _, _)
MostCommon(types, i, a) ==
    IF i > Len(types.order) THEN a
    ELSE MostCommon(types, i + 1,
                    IF types.n[a] > types.n[types.order[i]] THEN a ELSE types.order[i])

\* Math.max(...Object.values(types))
MaxCount(types) ==
    CHOOSE m \in {types.n[t] : t \in DOMAIN types.n} :
        \A t \in DOMAIN types.n : types.n[t] <= m

analyzeFieldTypes(documents) ==
    LET Summary(counts) ==
            [field \in DOMAIN counts |->
                [type |-> MostCommon(counts[field], 2, counts[field].order[1]),
                 nullable |-> "null" \in DOMAIN counts[field].n,
                 samples |-> MaxCount(counts[field])]]
    IN  Bind(AnalyzeDocuments(documents, 1, Len(documents), NoFields), Summary)

(***************************************************************************)
(* SpecInfer: a schema is inferred from a document sample, as the export   *)
(* does (line 381), and a document is validated against it, as the import  *)
(* does with the fields entry the export wrote for the collection.         *)
(***************************************************************************)
InferValues ==
    {Null, Str("34"), Num(0, 34),
     Obj([zip |-> Str("34")]), Obj([zip |-> Num(0, 34)]),
     Arr(<<Obj([zip |-> Num(0, 34)])>>),
     Arr(<<Obj([zip |-> Str("34")]), Obj([zip |-> Num(0, 34)])>>)}
InferDocs == {MakeDoc(a, Absent) : a \in InferValues \cup {Absent}}
Samples == SeqsUpTo(InferDocs, MaxDocs)

InitInfer ==
    /\ mode = "infer" /\ pc = "sample"
    /\ env = Idle /\ opts = Idle /\ files = Idle /\ store = Idle
    /\ ops = Idle /\ run = Idle /\ faults = 0
    /\ cur \in {[sample |-> q] : q \in Samples}
    /\ \E d \in InferDocs :
          LET a == Alloc(<<>>, d)
          IN  heap = a.h /\ doc = a.v /\ input0 = d
    /\ schema = Idle /\ report = Idle

\* const schema = analyzeFieldTypes(documents); collectionSchema.fields
Infer ==
    /\ mode = "infer" /\ pc = "sample"
    /\ schema' = [fields |-> analyzeFieldTypes(cur.sample)]
    /\ pc' = "call"
    /\ UNCHANGED <<mode, heap, doc, input0, report, runVars>>

SpecInfer == InitInfer /\ [][Infer \/ ValidateCall]_vars

(***************************************************************************)
(* The SQL migration (src/unnamed/part_000, lines 216-322).  A statement   *)
(* is kept as its parts: CREATE TABLE as its column definitions, an INSERT *)
(* as its column names with their literals.                                *)
(***************************************************************************)
\* field.replace(/\[\]/g, '_array').replace(/\./g, '_'), on the paths of the model
cleanField(field) ==
    CASE field = "age.zip" -> "age_zip"
      [] field = "age[].zip" -> "age_array_zip"
      [] OTHER -> field
\* line 270: the same replacement on a key of the flattened document
cleanKey(key) == cleanField(key)

mongoTypeToSQL(mongoType) ==
    CASE mongoType = "string" -> "TEXT"
      [] mongoType = "number" -> "DECIMAL(10,2)"
      [] mongoType = "boolean" -> "BOOLEAN"
      [] mongoType = "date" -> "DATETIME"
      [] mongoType = "objectId" -> "VARCHAR(24)"
      [] mongoType = "array" -> "JSON"
      [] mongoType = "object" -> "JSON"
      [] OTHER -> "TEXT"

generateCreateTableSQL(fields) ==
    LET keys == ObjectKeys(fields)
        Column(field) ==
            [column |-> cleanField(field), sqlType |-> mongoTypeToSQL(fields[field].type),
             notNull |-> ~fields[field].nullable]
    IN  (IF "_id" \notin DOMAIN fields
         THEN <<[column |-> "_id", sqlType |-> "VARCHAR(24) PRIMARY KEY", notNull |-> FALSE]>>
         ELSE <<>>)
        \o [i \in 1..Len(keys) |-> Column(keys[i])]

\* flattenObject(obj): one entry per key of obj; prefix is never passed, and
\* an array or a plain object is kept as its JSON text
flattenObject(f) ==
    [key \in DOMAIN f |->
        IF f[key].t \in {"null", "undefined"} THEN Null
        ELSE IF f[key].t \in {"array", "object"} THEN Str(JSONStringify(f[key]))
        ELSE f[key]]

\* no text of the model holds a quote character, which would be doubled
formatValueForSQL(value) ==
    CASE value.t \in {"null", "undefined"} -> "NULL"
      [] value.t = "string" -> "'" \o value.s \o "'"
      [] value.t = "boolean" -> IF value.b THEN "1" ELSE "0"
      [] value.t = "objectId" -> "'" \o value.hex \o "'"
      [] value.t = "number" -> NumToString(value)

\* one INSERT statement: the columns and literals of the flattened document
InsertStatement(flatDoc) ==
    LET keys == ObjectKeys(flatDoc)
    IN  [i \in 1..Len(keys) |->
            [column |-> cleanKey(keys[i]), value |-> formatValueForSQL(flatDoc[keys[i]])]]

generateInsertSQL(documents) ==
    [j \in 1..Len(documents) |-> InsertStatement(flattenObject(documents[j].f))]

(***************************************************************************)
(* exportCollections (src/unnamed/part_000, lines 324-461)                 *)
(***************************************************************************)
\* Math.min(100, stats.count || 100)
SampleLimit == 100

\* a collection of one document more than a sample holds; only the last
\* document has a zip
LargeCollection(c) ==
    [i \in 1..SampleLimit + 1 |->
        IF i <= SampleLimit THEN Obj([_id |-> Str(c \o ToString(i))])
        ELSE Obj([_id |-> Str(c \o ToString(i)), zip |-> Str("34")])]
\* orders: empty, a flat document, or a document with a nested object or
\* with an array of objects
OrdersBefore ==
    {<<>>, FileDocs("orders", 1),
     <<Obj([_id |-> Str("orders1"), age |-> Obj([zip |-> Num(0, 34)])])>>,
     <<Obj([_id |-> Str("orders1"), age |-> Arr(<<Obj([zip |-> Str("34")])>>)])>>}
\* the store before an export: users holds up to MaxDocs documents or is
\* large
ExportStores ==
    {[exists |-> CollSet, docs |-> [c \in CollSet |-> IF c = "users" THEN u ELSE o]]
        : u \in {FileDocs("users", n) : n \in 0..MaxDocs} \cup {LargeCollection("users")},
          o \in OrdersBefore}

InitExport ==
    /\ mode = "export" /\ pc = "start"
    /\ env \in Envs
    /\ opts = Idle
    /\ files \in FileStates
    /\ store \in ExportStores
    /\ ops = <<>> /\ run = NewRun /\ cur = Idle /\ faults = 0
    /\ heap = Idle /\ doc = Idle /\ schema = Idle /\ input0 = Idle /\ report = Idle

\* lines 334-359: await db.listCollections().toArray(), then the directories
ListCollections ==
    /\ mode = "export" /\ pc = "listCollections"
    /\ Issue([op |-> "listCollections"])
    /\ \/ /\ run' = [run EXCEPT !.list = SelectSeq(Colls, LAMBDA c : c \in store.exists),
                                !.idx = 1]
          /\ files' = [files EXCEPT !.schemaDir = TRUE, !.dataDir = TRUE]
          /\ pc' = "exportLoop"
          /\ UNCHANGED faults
       \/ /\ MayFail /\ faults' = faults + 1
          /\ Throw("listCollections")
          /\ UNCHANGED files
       \/ /\ MayFail /\ faults' = faults + 1
          /\ ~files.schemaDir
          /\ Throw("mkdirSync")
          /\ UNCHANGED files
    /\ UNCHANGED <<mode, env, opts, store, cur, valVars>>

\* the for statement of line 361; after it, lines 421-452: the manifest and
\* the migration scripts are written
ExportLoop ==
    /\ mode = "export" /\ pc = "exportLoop"
    /\ IF run.idx > Len(run.list) THEN
           \/ /\ files' = [files EXCEPT !.manifest =
                               File([collections |-> run.collections,
                                     totalCollections |-> Len(run.list)])]
              /\ run' = [run EXCEPT !.summary = TRUE]
              /\ pc' = "close"
              /\ UNCHANGED <<cur, faults>>
           \/ /\ MayFail /\ faults' = faults + 1
              /\ Throw("writeFileSync")
              /\ UNCHANGED <<files, cur>>
       ELSE /\ cur' = [name |-> run.list[run.idx], count |-> 0, indexes |-> <<>>,
                       sample |-> <<>>]
            /\ pc' = "collStats"
            /\ UNCHANGED <<files, run, faults>>
    /\ UNCHANGED <<mode, env, opts, store, ops, valVars>>

\* line 368: await db.command({ collStats: name }).catch(() => ({}))
CollStats ==
    /\ mode = "export" /\ pc = "collStats"
    /\ Issue([op |-> "collStats", coll |-> cur.name])
    /\ \/ /\ cur' = [cur EXCEPT !.count = Len(store.docs[cur.name])]
          /\ UNCHANGED <<run, faults>>
       \/ \* the rejection is replaced by {}: stats.count is undefined
          /\ MayFail /\ faults' = faults + 1
          /\ run' = [run EXCEPT !.failed = @ \cup {"collStats"}]
          /\ UNCHANGED cur
    /\ pc' = "exportIndexes"
    /\ UNCHANGED <<mode, env, opts, files, store, valVars>>

\* line 369: await collection.indexes()
ExportIndexes ==
    /\ mode = "export" /\ pc = "exportIndexes"
    /\ Issue([op |-> "indexes", coll |-> cur.name])
    /\ \/ /\ cur' = [cur EXCEPT !.indexes = <<"_id_">>]
          /\ pc' = "findSample"
          /\ UNCHANGED <<run, faults>>
       \/ /\ MayFail /\ faults' = faults + 1
          /\ Throw("indexes")
          /\ UNCHANGED cur
    /\ UNCHANGED <<mode, env, opts, files, store, valVars>>

sampleSize(count) ==
    IF count # 0 /\ count < SampleLimit THEN count ELSE SampleLimit
\* find({}).limit(n).toArray()
Limit(docs, n) == SubSeq(docs, 1, IF n < Len(docs) THEN n ELSE Len(docs))

\* lines 372-378: the sample; an empty collection is skipped
FindSample ==
    /\ mode = "export" /\ pc = "findSample"
    /\ Issue([op |-> "find", coll |-> cur.name, limit |-> sampleSize(cur.count)])
    /\ \/ /\ Len(store.docs[cur.name]) = 0
          /\ run' = [run EXCEPT !.idx = @ + 1]
          /\ cur' = Idle
          /\ pc' = "exportLoop"
          /\ UNCHANGED faults
       \/ /\ Len(store.docs[cur.name]) > 0
          /\ cur' = [cur EXCEPT !.sample = Limit(store.docs[cur.name], sampleSize(cur.count))]
          /\ pc' = "findAll"
          /\ UNCHANGED <<run, faults>>
       \/ /\ MayFail /\ faults' = faults + 1
          /\ Throw("find")
          /\ UNCHANGED cur
    /\ UNCHANGED <<mode, env, opts, files, store, valVars>>

\* lines 391-400: collectionSchema
ExportedSchema(name, fields, indexes, allDocuments) ==
    [name |-> name, fields |-> fields, indexes |-> indexes,
     stats |-> [documentCount |-> Len(allDocuments)]]

\* the text JSON.stringify(allDocuments) leaves in the data file, as parsed
DataFile(allDocuments) ==
    File([i \in 1..Len(allDocuments) |-> JsonRoundTrip(allDocuments[i])])

\* lines 384-418: every document is read; the data file, the schema file and
\* the migration file are written; the collection enters the manifest
FindAll ==
    /\ mode = "export" /\ pc = "findAll"
    /\ Issue([op |-> "find", coll |-> cur.name, limit |-> 0])
    /\ \/ /\ \E fields \in {analyzeFieldTypes(cur.sample)} :
                /\ files' = [files EXCEPT
                      !.data[cur.name] = DataFile(store.docs[cur.name]),
                      !.migration[cur.name] =
                          File([createTable |-> generateCreateTableSQL(fields),
                                inserts |-> generateInsertSQL(store.docs[cur.name])])]
                /\ run' = [run EXCEPT
                      !.collections =
                          (cur.name :> ExportedSchema(cur.name, fields, cur.indexes,
                                                      store.docs[cur.name])) @@ @,
                      !.idx = @ + 1]
          /\ cur' = Idle
          /\ pc' = "exportLoop"
          /\ UNCHANGED faults
       \/ /\ MayFail /\ faults' = faults + 1
          /\ Throw("find")
          /\ UNCHANGED <<files, cur>>
       \/ \* the data file cannot be written
          /\ MayFail /\ faults' = faults + 1
          /\ Throw("writeFileSync")
          /\ UNCHANGED <<files, cur>>
       \/ \* the data file is written, a later file is not
          /\ MayFail /\ faults' = faults + 1
          /\ files' = [files EXCEPT !.data[cur.name] = DataFile(store.docs[cur.name])]
          /\ Throw("writeFileSync")
          /\ UNCHANGED cur
    /\ UNCHANGED <<mode, env, opts, store, valVars>>

ExportNext ==
    \/ ListCollections \/ ExportLoop \/ CollStats \/ ExportIndexes
    \/ FindSample \/ FindAll

Init == InitImport \/ InitExport
Next == ConstructThrows \/ Construct \/ Connect \/ Close \/ ImportNext \/ ExportNext
Spec == Init /\ [][Next]_vars

\* SpecBatch: an import run with every batch size --batch-size= can set
\* (parseInt of its text: an integer of either sign, or NaN) and the other
\* options at their defaults or with pre-clear off.
CliBatchSizes == {NaN, 0 - 1, 0} \cup 1..MaxBatch
CliOptions ==
    {[DefaultOptions EXCEPT !.batchSize = b, !.clearCollections = c, !.recreateDatabase = c] :
        b \in CliBatchSizes, c \in BOOLEAN}
NextImport == ConstructThrows \/ Construct \/ Connect \/ Close \/ ImportNext

\* The run is one chain of awaits on one event loop with nothing else
\* scheduled: every awaited call settles and its continuation is run.
SpecBatch == InitImportWith(CliOptions) /\ [][NextImport]_vars /\ WF_vars(NextImport)
InitLive == InitImportWith(FlagOptions) \/ InitExport
SpecLive == InitLive /\ [][Next]_vars /\ WF_vars(Next)

(***************************************************************************)
(* Properties of a run, read off the log of the calls it issued            *)
(***************************************************************************)
OpsNamed(S) == {i \in 1..Len(ops) : ops[i].op \in S}
Writes == {"dropDatabase", "deleteMany", "insertMany", "insertOne", "createIndex"}
Done == pc = "done"

NothingExported == ~files.schemaDir \/ ~files.dataDir \/ ~files.manifest.exists

\* C1 as stated: an import run that finds no manifest (or no export
\* directories) issues no store call other than connect and close.
C1_AsStated ==
    (mode = "import" /\ NothingExported) => OpsNamed(Writes) = {}

\* the insertMany and insertOne calls of the collection being imported
IsInsert(o) == o.op \in {"insertMany", "insertOne"} /\ o.coll = cur.name
Inserts == SelectSeq(ops, IsInsert)
Bulk == SelectSeq(ops, LAMBDA o : o.op = "insertMany" /\ o.coll = cur.name)
CeilDiv(n, b) == (n + b - 1) \div b
ImportReturned == mode = "import" /\ pc = "afterImport" /\ cur.returned = "result"

\* C2: when importCollectionData returns, the N documents went out in
\* ceil(N/B) insertMany calls, the k-th holding documents (k-1)B+1..min(kB,N)
\* in order; a rejected insertMany is followed by one insertOne per document
\* of its batch, in order, an accepted one by none, and then the next batch
\* goes out as an insertMany again.
C2_Batches ==
    ImportReturned =>
        LET N == Len(cur.validDocuments)
            B == opts.batchSize
        IN  /\ Len(Bulk) = CeilDiv(N, B)
            /\ \A k \in 1..Len(Bulk) :
                  /\ Len(Bulk[k].docs) = IF k * B <= N THEN B ELSE N - (k - 1) * B
                  /\ \A j \in 1..Len(Bulk[k].docs) :
                        Bulk[k].docs[j] = cur.validDocuments[(k - 1) * B + j]
            /\ Inserts # <<>> /\ Inserts[1].op = "insertMany"
            /\ \A p \in 1..Len(Inserts) :
                  Inserts[p].op = "insertMany" =>
                      LET n == IF Inserts[p].rejected THEN Len(Inserts[p].docs) ELSE 0
                      IN  /\ p + n <= Len(Inserts)
                          /\ \A j \in 1..n :
                                /\ Inserts[p + j].op = "insertOne"
                                /\ Inserts[p + j].docs = <<Inserts[p].docs[j]>>
                          /\ p + n < Len(Inserts) => Inserts[p + n + 1].op = "insertMany"

\* three batches of one document; the middle one is rejected and falls back,
\* the first and the last are accepted as bulk calls
C2_Witness ==
    /\ ImportReturned
    /\ Len(cur.validDocuments) = 3 /\ opts.batchSize = 1
    /\ Len(Inserts) = 4
    /\ ~Inserts[1].rejected
    /\ Inserts[2].op = "insertMany" /\ Inserts[2].rejected
    /\ Inserts[3].op = "insertOne"
    /\ Inserts[4].op = "insertMany" /\ ~Inserts[4].rejected

CollectionFailures == {"deleteMany", "insertMany", "insertOne", "createIndex"}

\* C3 as stated: a run in which only calls made for a collection failed
\* (deleteMany, insertMany, insertOne, createIndex) has gone through every
\* collection of its list and printed its summary when it ends.
C3_AsStated ==
    (mode = "import" /\ Done /\ run.failed # {} /\ run.failed \subseteq CollectionFailures)
        => (run.summary /\ run.idx > Len(run.list))

Released == OpsNamed({"close"}) # {}
ReleasedOnceAndLast ==
    /\ Cardinality(OpsNamed({"close"})) <= 1
    /\ \A i \in OpsNamed({"close"}) : i = Len(ops)
    /\ (run.client /\ Done) => Released

C5_AsStated ==
    (mode = "import" /\ (~env.uri \/ ~env.dbName)) => OpsNamed(Writes) = {}

(***************************************************************************)
(* Properties of importCollectionData's validation totals                  *)
(***************************************************************************)
RECURSIVE SumSeq(_)
SumSeq(q) == IF q = <<>> THEN 0 ELSE Head(q) + SumSeq(Tail(q))

\* what validateDocument reports for each document of the current data file
ReportsOfCurrent ==
    LET documents == files.data[cur.name].content
        sch == files.manifest.content.collections[cur.name]
    IN  [i \in 1..Len(documents) |-> ValidateValue(documents[i], sch)]

\* C11 as stated: with validation on, every validated document, valid or
\* not, is forwarded to the store, and the totals importCollectionData
\* returns are the sums over all of them: typeCasts of the cast counts,
\* warnings of the warning counts, errors of the error counts.
C11_AsStated ==
    (ImportReturned /\ opts.validateData) =>
        LET v == ReportsOfCurrent
        IN  /\ cur.validDocuments = [i \in 1..Len(v) |-> v[i].document]
            /\ cur.typeCasts = SumSeq([i \in 1..Len(v) |-> v[i].typeCastingCount])
            /\ cur.warnings = SumSeq([i \in 1..Len(v) |-> Len(v[i].warnings)])
            /\ cur.errors = SumSeq([i \in 1..Len(v) |-> Len(v[i].errors)])

(***************************************************************************)
(* Properties of inference and of validation against an inferred schema    *)
(* (SpecInfer).  The path rules of the schema: a member of an object is    *)
(* at <path>.<key>, a member of an object held in an array at               *)
(* <path>[].<key>.  An occurrence is a value met on the walk of a          *)
(* document: its path, its path with the element's index in place of [],   *)
(* and the keys and indices that lead to it.                               *)
(***************************************************************************)
Join(prefix, key) == IF prefix # "" THEN prefix \o "." \o key ELSE key

RECURSIVE Occurrences(_, _, _, _, _), ItemOccurrences(_, _, _, _, _)
Occurrences(f, keys, prefix, iprefix, loc) ==
    IF keys = <<>> THEN <<>>
    ELSE
        LET key == Head(keys)
            value == f[key]
            path == Join(prefix, key)
            ipath == Join(iprefix, key)
            here == Append(loc, key)
        IN  <<[path |-> path, ipath |-> ipath, loc |-> here, value |-> value]>>
            \o (IF value.t = "object"
                THEN Occurrences(value.f, ObjectKeys(value.f), path, ipath, here)
                ELSE IF value.t = "array"
                THEN ItemOccurrences(value.e, 1, path, ipath, here)
                ELSE <<>>)
            \o Occurrences(f, Tail(keys), prefix, iprefix, loc)
ItemOccurrences(items, i, path, ipath, loc) ==
    IF i > Len(items) THEN <<>>
    ELSE (IF items[i].t = "object"
          THEN Occurrences(items[i].f, ObjectKeys(items[i].f), path \o "[]",
                           ipath \o "[" \o ToString(i - 1) \o "]",
                           Append(loc, ToString(i)))
          ELSE <<>>)
         \o ItemOccurrences(items, i + 1, path, ipath, loc)
DocOccurrences(d) == Occurrences(d.f, ObjectKeys(d.f), "", "", <<>>)

\* the value a document holds at the end of loc, Absent when there is none
RECURSIVE Get(_, _)
Get(v, loc) ==
    IF loc = <<>> THEN v
    ELSE IF v.t = "object" /\ Head(loc) \in DOMAIN v.f THEN Get(v.f[Head(loc)], Tail(loc))
    ELSE IF v.t = "array" /\ \E i \in 1..Len(v.e) : ToString(i) = Head(loc)
    THEN Get(v.e[CHOOSE i \in 1..Len(v.e) : ToString(i) = Head(loc)], Tail(loc))
    ELSE Absent

Inferred == mode = "infer" /\ pc # "sample"
Reported(o) ==
    \/ \E i \in 1..Len(report.warnings) : report.warnings[i].field \in {o.path, o.ipath}
    \/ \E i \in 1..Len(report.errors) : report.errors[i].field \in {o.path, o.ipath}

\* C12 as stated: for every path of the inferred schema, validateDocument
\* reaches the value the document holds at the corresponding nested
\* position: a value there whose type differs from the path's declared type
\* has the declared type in the returned document or is reported.
C12_AsStated ==
    (mode = "infer" /\ Returned_) =>
        LET occ == DocOccurrences(CopiedInput)
        IN  \A i \in 1..Len(occ) :
               (/\ occ[i].path \in DOMAIN schema.fields
                /\ occ[i].value.t # "null"
                /\ DeepType(occ[i].value) # schema.fields[occ[i].path].type)
               => \/ DeepType(Get(ReturnedDoc, occ[i].loc)) = schema.fields[occ[i].path].type
                  \/ Reported(occ[i])

\* C13 as stated: every entry of the inferred schema whose declared type is
\* array carries an arrayElementType (against which the elements are then
\* validated on import).
C13_AsStated ==
    Inferred =>
        \A p \in DOMAIN schema.fields :
            schema.fields[p].type = "array" => FsHasElemType(schema.fields[p])

RECURSIVE SampleOccurrences(_, _)
SampleOccurrences(documents, i) ==
    IF i > Len(documents) THEN <<>>
    ELSE DocOccurrences(documents[i]) \o SampleOccurrences(documents, i + 1)
Freq(occ, p, t) ==
    Cardinality({i \in 1..Len(occ) : occ[i].path = p /\ DeepType(occ[i].value) = t})

\* C14: the inferred schema has an entry for exactly the paths observed in
\* the sample (none for an empty sample); an entry's type is a type tag of
\* maximal observed frequency at the path, nullable is true exactly when a
\* null was observed there, and samples is that maximal frequency.
C14_Inferred ==
    Inferred =>
        LET occ == SampleOccurrences(cur.sample, 1)
            fields == schema.fields
        IN  /\ DOMAIN fields = {occ[i].path : i \in 1..Len(occ)}
            /\ cur.sample = <<>> => DOMAIN fields = {}
            /\ \A p \in DOMAIN fields :
                  /\ Freq(occ, p, fields[p].type) > 0
                  /\ \A t \in TypeTags : Freq(occ, p, t) <= Freq(occ, p, fields[p].type)
                  /\ fields[p].nullable <=> Freq(occ, p, "null") > 0
                  /\ fields[p].samples = Freq(occ, p, fields[p].type)

\* a sample of three: a null first, then the number 34 twice
C14_Witness ==
    /\ Inferred
    /\ cur.sample = <<MakeDoc(Null, Absent), MakeDoc(Num(0, 34), Absent),
                      MakeDoc(Num(0, 34), Absent)>>
    /\ schema.fields = [age |-> [type |-> "number", nullable |-> TRUE, samples |-> 2]]

(***************************************************************************)
(* Properties of the files an export run writes                            *)
(***************************************************************************)
\* the collections whose files this run has written
ExportedNow == IF mode = "export" THEN DOMAIN run.collections ELSE {}
InsertColumns(c, j) ==
    LET statement == files.migration[c].content.inserts[j]
    IN  {statement[i].column : i \in 1..Len(statement)}
TableColumns(c) ==
    LET createTable == files.migration[c].content.createTable
    IN  {createTable[i].column : i \in 1..Len(createTable)}

\* C15 as stated: the INSERT statement of a document names, for every value
\* nested in the document, the column of the value's flattened path
\* (age_zip for {age: {zip: 1}}, age_array_zip for {age: [{zip: 1}]}), and
\* names no column whose path the document does not hold.
C15_AsStated ==
    \A c \in ExportedNow :
        \A j \in 1..Len(store.docs[c]) :
            LET occ == DocOccurrences(store.docs[c][j])
            IN  /\ \A i \in 1..Len(occ) :
                      Len(occ[i].loc) > 1 => cleanField(occ[i].path) \in InsertColumns(c, j)
                /\ InsertColumns(c, j) \subseteq
                      {cleanField(occ[i].path) : i \in 1..Len(occ)}

\* C19 as stated: every column an INSERT statement of a collection names is
\* a column of the collection's CREATE TABLE statement.
C19_AsStated ==
    \A c \in ExportedNow :
        \A j \in 1..Len(files.migration[c].content.inserts) :
            InsertColumns(c, j) \subseteq TableColumns(c)

\* C20 as stated: in the manifest a run has written, totalCollections is the
\* number of entries of collections, and every entry's data file holds the
\* collection's documents.
C20_AsStated ==
    (mode = "export" /\ run.summary) =>
        LET m == files.manifest.content
        IN  /\ m.totalCollections = Cardinality(DOMAIN m.collections)
            /\ \A c \in DOMAIN m.collections :
                  files.data[c] = DataFile(store.docs[c])

(***************************************************************************)
(* Properties of what an import run leaves in the store                    *)
(***************************************************************************)
Listed ==
    IF opts.selectiveImport = NoSelection THEN CollSet
    ELSE {opts.selectiveImport.list[i] : i \in 1..Len(opts.selectiveImport.list)}
Keeps(c) ==
    \A i \in 1..Len(StoreBefore.docs[c]) :
        \E j \in 1..Len(store.docs[c]) : store.docs[c][j] = StoreBefore.docs[c][i]

\* C16 as stated: an import run given a collection list leaves every
\* collection outside the list as it was, and an import run with pre-clear
\* disabled deletes no document that was in the store, whatever the other
\* options are.
C16_AsStated ==
    mode = "import" =>
        /\ \A c \in CollSet \ Listed : store.docs[c] = StoreBefore.docs[c]
        /\ ~opts.clearCollections => \A c \in CollSet : Keeps(c)

\* C17 as stated: the imported count importCollectionData returns is the
\* number of the collection's documents the store holds after the import.
\* (Taken with pre-clear on, so that the store holds no document of the
\* collection from before the import.)
C17_AsStated ==
    (ImportReturned /\ opts.clearCollections) =>
        cur.importedCount = Len(store.docs[cur.name])

(***************************************************************************)
(* Properties of the batch loop under every batch size (SpecBatch)         *)
(***************************************************************************)
InBatchLoop == mode = "import" /\ pc \in {"insertMany", "insertOne"}
Submitted(d) ==
    \E p \in 1..Len(Inserts) : \E j \in 1..Len(Inserts[p].docs) : Inserts[p].docs[j] = d
AllSubmitted ==
    ImportReturned =>
        \A k \in 1..Len(cur.validDocuments) : Submitted(cur.validDocuments[k])

\* C18 as stated: for every batch size the command line can set, the batch
\* loop of importCollectionData comes to an end, and when it has ended every
\* document has been submitted to the store at least once.
C18_AsStated ==
    /\ InBatchLoop ~> ~InBatchLoop
    /\ []AllSubmitted
====
